---- MODULE Spec2Model ----
(***************************************************************************)
(* katla: PosixSocket (src/core/posix-socket.cpp).                         *)
(*                                                                         *)
(* Every PosixSocket method is one action.  The operating system is the    *)
(* environment: each system call a method issues gets its outcome from a   *)
(* small set (\E in the action), and the method's own control flow decides *)
(* which calls are issued and what is returned.  A method is written as an *)
(* operator that returns the value it returns, the fields it leaves behind *)
(* and the system calls it issued, in order; Step applies that to the      *)
(* state.                                                                  *)
(*                                                                         *)
(* Descriptors are the numbers 0 .. MaxFd-1; socket() and socketpair()     *)
(* hand out the lowest numbers that are not open, so the number of a       *)
(* released descriptor is handed out again.                                *)
(* _frameType only ever reaches the address structures handed to the OS    *)
(* and is left out.                                                        *)
(*                                                                         *)
(* katla: WebSocketServerLws (src/websockets/websocket-server-lws.cpp).    *)
(*                                                                         *)
(* libwebsockets runs callbackWebsocketServer on one service thread, one   *)
(* callback at a time: every case of its switch is one action, and the     *)
(* order in which the library raises the callbacks of different            *)
(* connections is open.  lws_protocol_vh_priv_get() returns the storage of *)
(* the vhost and protocol, so every connection of the "websocket-server"   *)
(* protocol sees the same VhdWebSocketServer.                              *)
(* WebSocketServerLws::work() is the body of the worker thread: it asks    *)
(* for the writable callbacks and lets the library run what is due.        *)
(* handle() and handleWebSocket() are the application's registrations.     *)
(***************************************************************************)
EXTENDS Integers, Sequences, FiniteSets

\* ---------------------------------------------------------------- bounds
\* Descriptors that can be open at a time before socket()/socketpair() fail.
MaxFd == 2
\* Size of the buffer handed to read/write/sendTo.
MaxBuf == 1
\* Bytes a pair holds in one direction before a write has to wait.
ChanCap == 2

\* Connections the server has in its lifetime.
MaxConn == 2
\* HTTP requests on one connection.
MaxRequests == 2
\* LWS_CALLBACK_HTTP_BODY callbacks of one request with a body.
MaxChunks == 1
MaxFragments == 2
MaxRegistrations == 3

\* ------------------------------------------------------------- constants
\* "not created": the value _fd holds before create() and after close().
Sentinel == -1
\* sizeof(sockaddr_un::sun_path): url.length() >= 108 is rejected.
UnixPathMax == 108

Sockets == {1, 2}
Fds == 0 .. (MaxFd - 1)

ProtocolDomain == {"Unix", "IPv4", "IPv6", "Packet", "Can", "Bluetooth", "VSock"}
Type == {"Stream", "Datagram", "SequencedPacket", "Raw"}

\* The configurations the model constructs sockets with: every branch of
\* bind/connect/sendTo is taken by one of them.
ConfigInputs ==
    {<<"Unix", "Stream">>, <<"Packet", "Raw">>, <<"Packet", "Stream">>, <<"IPv4", "Stream">>}

\* The content of a buffer is a sequence of bytes; n bytes of no interest.
Byte == {"a", "b"}
Filler(n) == [i \in 1 .. n |-> "a"]
\* The buffers written to an end of a pair, and the sizes read with.
BufferInputs == {<<"a">>, <<"a", "b">>, <<"b", "a", "b">>}
SizeInputs == {Len(b) : b \in BufferInputs}

\* A url is its text and its length (std::string::length()).
Url(name, length) == [name |-> name, length |-> length]
EmptyUrl == Url("", 0)
\* "eth0" and "lo" name interfaces of the host and are short paths as well;
\* "p107" and "p108" are paths around the limit and name no interface.
UrlInputs ==
    { Url("eth0", 4), Url("lo", 2), Url("p107", UnixPathMax - 1),
      Url("p108", UnixPathMax) }

\* if_nametoindex(): the interfaces of the host; 0 for any other name.
if_nametoindex(name) ==
    CASE name = "lo" -> 1
      [] name = "eth0" -> 2
      [] OTHER -> 0

\* ---------------------------------------------------------------- errors
NoError == <<"none", "">>
\* make_error_code(PosixErrorCodes::X)
make_error_code(code) == <<"posix", code>>
\* std::make_error_code(static_cast<std::errc>(errno))
errc(errno) == <<"generic", errno>>

success(v) == [ok |-> TRUE, err |-> NoError, value |-> v]
failure(e) == [ok |-> FALSE, err |-> e, value |-> 0]

\* One system call as the method issued it: the descriptor it was issued on
\* (for socket(): the descriptor it returned), whether it succeeded, the errno
\* it left, and for close() whether the kernel released the descriptor.
OsCall(call, fd, ok, errno, released) ==
    [call |-> call, fd |-> fd, ok |-> ok, errno |-> errno, released |-> released, ret |-> 0,
     size |-> 0, bytes |-> <<>>]
\* The same for a call whose return value the method looks at or returns.
OsCallRet(call, fd, r) ==
    [call |-> call, fd |-> fd, ok |-> r.ret # -1, errno |-> r.errno, released |-> FALSE,
     ret |-> r.ret, size |-> 0, bytes |-> <<>>]
\* The same for a call that is handed a buffer: its size, and the bytes in it
\* (for a write the bytes handed over, for a receive the bytes delivered).
OsCallData(call, fd, r, size, bytes) ==
    [call |-> call, fd |-> fd, ok |-> r.ret # -1, errno |-> r.errno, released |-> FALSE,
     ret |-> r.ret, size |-> size, bytes |-> bytes]

NoWait ==
    [dataToRead |-> FALSE, urgentDataToRead |-> FALSE, writingWillNotBlock |-> FALSE,
     readHangup |-> FALSE, writeHangup |-> FALSE, error |-> FALSE, invalid |-> FALSE]

VARIABLES
    lifecycle,        \* per instance: "none", "live", "destroyed"
    _fd,              \* per instance: the stored descriptor
    _protocolDomain,
    _type,
    _nonBlocking,
    _url,             \* per instance: boundUrl
    osOpen,           \* OS: the descriptors that are open
    peer,             \* OS: per descriptor, the other end of its pair, or -1
    hungUp,           \* OS: the open ends of a pair whose other end is released
    chan,             \* OS: per descriptor, the bytes written to it and not
                      \* yet received from it
    trip,             \* history: the round trip in progress: a write on one
                      \* end of a pair, polls and a read on the other end
    closeCount,       \* history: OS close calls issued per descriptor since
                      \* the OS last handed it out
    obtained,         \* history: the descriptors each instance obtained
    performedIo,      \* history: instance issued an OS bind/connect/send/receive
    lastBound,        \* history: url of the instance's latest successful OS bind
    last,             \* the latest method call: its arguments, result and OS
                      \* calls, the fields before it, and whether it repeats
                      \* the call before it (same method, same instance)
    wsi,              \* server, per connection: what it is and the progress
                      \* of its HTTP request
    vhd,              \* server: the VhdWebSocketServer (client, request)
    webSocketClients, \* server: the clients that are registered
    heap,             \* server: per IncomingHttpRequest, whether it is
                      \* allocated and the body chunks inserted into it
    dispatched,       \* history: the calls of handleHttpRequest
    crashed,          \* server: the process has died
    event,            \* the latest callback
    sendQueue,        \* server, per WebSocket client: the fragments queued
    queued,           \* server, per WebSocket client: fragments queued so far
    writable,         \* server: connections with a writable callback requested
    written,          \* history, per connection: the fragments lws_write sent
    httpHandlers,     \* server: the HTTP handlers (method, url, callbacks)
    webSocketHandlers,\* server: the WebSocket handlers (url, callbacks)
    registered        \* history: the calls of handle and handleWebSocket

sockets ==
    <<lifecycle, _fd, _protocolDomain, _type, _nonBlocking, _url, osOpen,
      peer, hungUp, chan, trip, closeCount, obtained, performedIo, lastBound, last>>

outgoing == <<sendQueue, queued, writable, written>>

handlers == <<httpHandlers, webSocketHandlers, registered>>

server ==
    <<wsi, vhd, webSocketClients, heap, dispatched, crashed, event, outgoing, handlers>>

vars == <<sockets, server>>

config == <<_protocolDomain, _type, _nonBlocking>>

\* ------------------------------------------------------- pure functions
mapProtocolDomain(protocolDomain) ==
    CASE protocolDomain = "Unix" -> 1
      [] protocolDomain = "IPv4" -> 2
      [] protocolDomain = "IPv6" -> 10
      [] protocolDomain = "Packet" -> 17
      [] protocolDomain = "Can" -> 29
      [] protocolDomain = "Bluetooth" -> 31
      [] protocolDomain = "VSock" -> 40
      [] OTHER -> -1

mapType(type) ==
    CASE type = "Stream" -> 1
      [] type = "Datagram" -> 2
      [] type = "SequencedPacket" -> 5
      [] type = "Raw" -> 3
      [] OTHER -> -1

\* ------------------------------------------------------ OS outcome sets
Ret(ret, errno) == [ret |-> ret, errno |-> errno]

\* The lowest of the descriptors `free`.
Lowest(free) == CHOOSE f \in free : \A g \in free : f <= g
\* socket(): the lowest descriptor that is not open, or a failure.
SocketOk ==
    IF Fds \ osOpen # {} THEN Ret(Lowest(Fds \ osOpen), "none") ELSE Ret(-1, "EMFILE")

\* The outcomes of the system calls of one bind/connect/sendTo: a method
\* returns at the first call that fails, so what the calls after it would
\* have done is left open; `fail` names the call that fails, if any.
OsOutcomes(fail, sendRet) ==
    [socket |-> IF fail = "socket" THEN Ret(-1, "EMFILE") ELSE SocketOk,
     bind |-> IF fail = "bind" THEN Ret(-1, "EADDRINUSE") ELSE Ret(0, "none"),
     connect |-> IF fail = "connect" THEN Ret(-1, "ECONNREFUSED") ELSE Ret(0, "none"),
     membership |-> IF fail = "setsockopt" THEN Ret(-1, "ENODEV") ELSE Ret(0, "none"),
     send |-> IF fail = "sendto" THEN Ret(-1, "ENETDOWN") ELSE Ret(sendRet, "none")]

\* A call on a descriptor the OS does not hold open fails with EBADF.
OnFd(fd, outcomes) == IF fd \in osOpen THEN outcomes ELSE {Ret(-1, "EBADF")}

\* A transfer on a socket whose peer is outside the program moves any part
\* of the buffer, or fails.
RetData(ret, errno, bytes) == [ret |-> ret, errno |-> errno, bytes |-> bytes]
WriteOutcomes(buffer) == {Ret(k, "none") : k \in 0 .. Len(buffer)} \cup {Ret(-1, "EPIPE")}
RecvOutcomes(size) ==
    {RetData(k, "none", Filler(k)) : k \in 0 .. size}
        \cup {RetData(-1, "EAGAIN", <<>>), RetData(-1, "ECONNRESET", <<>>)}

\* An open end of a pair, and the room left for what is written to it.
IsEnd(fd) == fd \in osOpen /\ (peer[fd] # -1 \/ fd \in hungUp)
Room(fd) == ChanCap - Len(chan[peer[fd]])
Min(a, b) == IF a < b THEN a ELSE b
\* ::write on a stream pair: all of the buffer when there is room; with less
\* room a non-blocking end takes what fits or would block, and a blocking end
\* does not return before the other end has read.
EndWriteOutcomes(fd, buffer, nonBlocking) ==
    IF fd \in hungUp THEN {Ret(-1, "EPIPE")}
    ELSE IF Room(fd) >= Len(buffer) THEN {Ret(Len(buffer), "none")}
    ELSE IF ~nonBlocking THEN {}
    ELSE IF Room(fd) = 0 THEN {Ret(-1, "EAGAIN")}
    ELSE {Ret(Room(fd), "none")}
\* ::recvfrom on a stream pair: the oldest bytes written to this end, as many
\* as fit; with none, end of file after a hang-up, else "would block" on a
\* non-blocking end, and a blocking end does not return.
EndRecvOutcomes(fd, size, nonBlocking) ==
    IF chan[fd] # <<>>
    THEN {RetData(Min(size, Len(chan[fd])), "none", SubSeq(chan[fd], 1, Min(size, Len(chan[fd]))))}
    ELSE IF fd \in hungUp THEN {RetData(0, "none", <<>>)}
    ELSE IF nonBlocking THEN {RetData(-1, "EAGAIN", <<>>)}
    ELSE {}
WriteOn(fd, buffer, nonBlocking) ==
    IF IsEnd(fd) THEN EndWriteOutcomes(fd, buffer, nonBlocking) ELSE OnFd(fd, WriteOutcomes(buffer))
RecvOn(fd, size, nonBlocking) ==
    IF IsEnd(fd) THEN EndRecvOutcomes(fd, size, nonBlocking)
    ELSE IF fd \in osOpen THEN RecvOutcomes(size) ELSE {RetData(-1, "EBADF", <<>>)}
\* ::poll on one descriptor: a negative descriptor is ignored (nothing is ever
\* ready), a descriptor that is not open reports POLLNVAL, POLLOUT is reported
\* only when asked for.
PollRet(ret, errno, revents) == [ret |-> ret, errno |-> errno, revents |-> revents]
\* What is ready on an end of a pair.
EndEvents(fd, writePending) ==
    (IF chan[fd] # <<>> \/ fd \in hungUp THEN {"POLLIN"} ELSE {})
        \cup (IF fd \in hungUp THEN {"POLLRDHUP", "POLLHUP"} ELSE {})
        \cup (IF writePending /\ fd \notin hungUp /\ Room(fd) > 0 THEN {"POLLOUT"} ELSE {})
PollOutcomes(fd, writePending) ==
    IF fd < 0 THEN {PollRet(0, "none", {}), PollRet(-1, "EINTR", {})}
    ELSE IF fd \notin osOpen THEN {PollRet(1, "none", {"POLLNVAL"})}
    ELSE IF IsEnd(fd)
    THEN {PollRet(-1, "EINTR", {}),
          PollRet(IF EndEvents(fd, writePending) = {} THEN 0 ELSE 1, "none",
                  EndEvents(fd, writePending))}
    ELSE {PollRet(-1, "EINTR", {}), PollRet(0, "none", {}), PollRet(1, "none", {"POLLIN"}),
          PollRet(1, "none", {"POLLIN", "POLLPRI"}),
          PollRet(1, "none", {"POLLRDHUP", "POLLHUP", "POLLERR"})}
         \cup (IF writePending THEN {PollRet(1, "none", {"POLLOUT"})} ELSE {})
\* socketpair(): the two lowest descriptors that are not open; only the Unix
\* domain has pairs.
PairRet(ret, errno, sd) == [ret |-> ret, errno |-> errno, sd |-> sd]
SocketpairOutcomes(protocolDomain) ==
    IF protocolDomain # "Unix" THEN {PairRet(-1, "EOPNOTSUPP", <<-1, -1>>)}
    ELSE (IF Cardinality(Fds \ osOpen) >= 2
          THEN LET first == Lowest(Fds \ osOpen)
               IN  {PairRet(0, "none", <<first, Lowest(Fds \ (osOpen \cup {first}))>>)}
          ELSE {})
         \cup {PairRet(-1, "EMFILE", <<-1, -1>>)}
\* close() of an open descriptor: Linux (the platform of <linux/if_packet.h>)
\* releases the descriptor whether or not it then reports an error.
CloseOutcomes ==
    {[ret |-> 0, errno |-> "none", released |-> TRUE],
     [ret |-> -1, errno |-> "EIO", released |-> TRUE]}
OnFdClose(fd) ==
    IF fd \in osOpen THEN CloseOutcomes
    ELSE {[ret |-> -1, errno |-> "EBADF", released |-> FALSE]}

\* ---------------------------------------------------------------- create
\* What a method leaves behind.
Effect(res, fd, url, calls, wait) ==
    [res |-> res, fd |-> fd, url |-> url, calls |-> calls, wait |-> wait]

create(s, sk) ==
    IF mapProtocolDomain(_protocolDomain[s]) = -1
    THEN Effect(failure(make_error_code("InvalidDomain")), _fd[s], _url[s], <<>>, NoWait)
    ELSE IF mapType(_type[s]) = -1
    THEN Effect(failure(make_error_code("InvalidType")), _fd[s], _url[s], <<>>, NoWait)
    ELSE LET call == OsCall("socket", sk.ret, sk.ret # -1, sk.errno, FALSE)
         IN  IF sk.ret = -1
             THEN Effect(failure(errc(sk.errno)), sk.ret, _url[s], <<call>>, NoWait)
             ELSE Effect(success(0), sk.ret, _url[s], <<call>>, NoWait)

\* ----------------------------------------------------------------- close
\* close() that forgets "_fd = -1" after a successful OS close.
close_KeepsFd(s, cl) ==
    IF _fd[s] = -1
    THEN Effect(success(0), _fd[s], _url[s], <<>>, NoWait)
    ELSE LET call == OsCall("close", _fd[s], cl.ret # -1, cl.errno, cl.released)
         IN  IF cl.ret = -1
             THEN Effect(failure(errc(cl.errno)), _fd[s], _url[s], <<call>>, NoWait)
             ELSE Effect(success(0), _fd[s], _url[s], <<call>>, NoWait)

\* close() that clears _fd before it looks at the status of the OS close.
close_ClearsOnFailure(s, cl) ==
    IF _fd[s] = -1
    THEN Effect(success(0), _fd[s], _url[s], <<>>, NoWait)
    ELSE LET call == OsCall("close", _fd[s], cl.ret # -1, cl.errno, cl.released)
         IN  IF cl.ret = -1
             THEN Effect(failure(errc(cl.errno)), -1, _url[s], <<call>>, NoWait)
             ELSE Effect(success(0), -1, _url[s], <<call>>, NoWait)

close(s, cl) ==
    IF _fd[s] = -1
    THEN Effect(success(0), _fd[s], _url[s], <<>>, NoWait)
    ELSE LET call == OsCall("close", _fd[s], cl.ret # -1, cl.errno, cl.released)
         IN  IF cl.ret = -1
             THEN Effect(failure(errc(cl.errno)), _fd[s], _url[s], <<call>>, NoWait)
             ELSE Effect(success(0), -1, _url[s], <<call>>, NoWait)

\* ------------------------------------------------------------------ bind
\* bind() that stores the url before it resolves it to an interface index.
bind_StoresUrlFirst(s, url, os) ==
    IF _protocolDomain[s] = "Packet" /\ _type[s] = "Raw"
    THEN LET c == create(s, os.socket)
             nameToIndexResult == if_nametoindex(url.name)
             lookup == OsCall("if_nametoindex", -1, nameToIndexResult # 0,
                              IF nameToIndexResult = 0 THEN "ENODEV" ELSE "none", FALSE)
             bindCall == OsCall("bind", c.fd, os.bind.ret # -1, os.bind.errno, FALSE)
             member == OsCall("setsockopt", c.fd, os.membership.ret # -1, os.membership.errno, FALSE)
         IN  IF ~c.res.ok
             THEN Effect(failure(c.res.err), c.fd, _url[s], c.calls, NoWait)
             ELSE IF nameToIndexResult = 0
             THEN Effect(failure(errc(lookup.errno)), c.fd, url, c.calls \o <<lookup>>, NoWait)
             ELSE IF os.bind.ret = -1
             THEN Effect(failure(errc(os.bind.errno)), c.fd, url,
                         c.calls \o <<lookup, bindCall>>, NoWait)
             ELSE IF os.membership.ret = -1
             THEN Effect(failure(errc(os.membership.errno)), c.fd, url,
                         c.calls \o <<lookup, bindCall, member>>, NoWait)
             ELSE Effect(success(0), c.fd, url, c.calls \o <<lookup, bindCall, member>>, NoWait)
    ELSE IF _protocolDomain[s] = "Unix"
    THEN LET c == create(s, os.socket)
             bindCall == OsCall("bind", c.fd, os.bind.ret # -1, os.bind.errno, FALSE)
         IN  IF ~c.res.ok
             THEN Effect(failure(c.res.err), c.fd, _url[s], c.calls, NoWait)
             ELSE IF url.length >= UnixPathMax
             THEN Effect(failure(make_error_code("UnixSocketPathTooLong")), c.fd, _url[s],
                         c.calls, NoWait)
             ELSE IF os.bind.ret = -1
             THEN Effect(failure(errc(os.bind.errno)), c.fd, _url[s],
                         c.calls \o <<bindCall>>, NoWait)
             ELSE Effect(success(0), c.fd, _url[s], c.calls \o <<bindCall>>, NoWait)
    ELSE Effect(failure(make_error_code("OperationNotSupported")), _fd[s], _url[s], <<>>, NoWait)

\* bind() that gives the descriptor back when the membership request fails.
bind_RollsBack(s, url, os) ==
    IF _protocolDomain[s] = "Packet" /\ _type[s] = "Raw"
    THEN LET c == create(s, os.socket)
             nameToIndexResult == if_nametoindex(url.name)
             lookup == OsCall("if_nametoindex", -1, nameToIndexResult # 0,
                              IF nameToIndexResult = 0 THEN "ENODEV" ELSE "none", FALSE)
             bindCall == OsCall("bind", c.fd, os.bind.ret # -1, os.bind.errno, FALSE)
             member == OsCall("setsockopt", c.fd, os.membership.ret # -1, os.membership.errno, FALSE)
         IN  IF ~c.res.ok
             THEN Effect(failure(c.res.err), c.fd, _url[s], c.calls, NoWait)
             ELSE IF nameToIndexResult = 0
             THEN Effect(failure(errc(lookup.errno)), c.fd, _url[s], c.calls \o <<lookup>>, NoWait)
             ELSE IF os.bind.ret = -1
             THEN Effect(failure(errc(os.bind.errno)), c.fd, _url[s],
                         c.calls \o <<lookup, bindCall>>, NoWait)
             ELSE IF os.membership.ret = -1
             THEN Effect(failure(errc(os.membership.errno)), -1, _url[s],
                         c.calls \o <<lookup, bindCall, member,
                                      OsCall("close", c.fd, TRUE, "none", TRUE)>>, NoWait)
             ELSE Effect(success(0), c.fd, url, c.calls \o <<lookup, bindCall, member>>, NoWait)
    ELSE IF _protocolDomain[s] = "Unix"
    THEN LET c == create(s, os.socket)
             bindCall == OsCall("bind", c.fd, os.bind.ret # -1, os.bind.errno, FALSE)
         IN  IF ~c.res.ok
             THEN Effect(failure(c.res.err), c.fd, _url[s], c.calls, NoWait)
             ELSE IF url.length >= UnixPathMax
             THEN Effect(failure(make_error_code("UnixSocketPathTooLong")), c.fd, _url[s],
                         c.calls, NoWait)
             ELSE IF os.bind.ret = -1
             THEN Effect(failure(errc(os.bind.errno)), c.fd, _url[s],
                         c.calls \o <<bindCall>>, NoWait)
             ELSE Effect(success(0), c.fd, _url[s], c.calls \o <<bindCall>>, NoWait)
    ELSE Effect(failure(make_error_code("OperationNotSupported")), _fd[s], _url[s], <<>>, NoWait)

\* os: the outcomes of the system calls bind may issue.
bind(s, url, os) ==
    IF _protocolDomain[s] = "Packet" /\ _type[s] = "Raw"
    THEN LET c == create(s, os.socket)
             nameToIndexResult == if_nametoindex(url.name)
             lookup == OsCall("if_nametoindex", -1, nameToIndexResult # 0,
                              IF nameToIndexResult = 0 THEN "ENODEV" ELSE "none", FALSE)
             bindCall == OsCall("bind", c.fd, os.bind.ret # -1, os.bind.errno, FALSE)
             member == OsCall("setsockopt", c.fd, os.membership.ret # -1, os.membership.errno, FALSE)
         IN  IF ~c.res.ok
             THEN Effect(failure(c.res.err), c.fd, _url[s], c.calls, NoWait)
             ELSE IF nameToIndexResult = 0
             THEN Effect(failure(errc(lookup.errno)), c.fd, _url[s], c.calls \o <<lookup>>, NoWait)
             ELSE IF os.bind.ret = -1
             THEN Effect(failure(errc(os.bind.errno)), c.fd, _url[s],
                         c.calls \o <<lookup, bindCall>>, NoWait)
             ELSE IF os.membership.ret = -1
             THEN Effect(failure(errc(os.membership.errno)), c.fd, url,
                         c.calls \o <<lookup, bindCall, member>>, NoWait)
             ELSE Effect(success(0), c.fd, url, c.calls \o <<lookup, bindCall, member>>, NoWait)
    ELSE IF _protocolDomain[s] = "Unix"
    THEN LET c == create(s, os.socket)
             bindCall == OsCall("bind", c.fd, os.bind.ret # -1, os.bind.errno, FALSE)
         IN  IF ~c.res.ok
             THEN Effect(failure(c.res.err), c.fd, _url[s], c.calls, NoWait)
             ELSE IF url.length >= UnixPathMax
             THEN Effect(failure(make_error_code("UnixSocketPathTooLong")), c.fd, _url[s],
                         c.calls, NoWait)
             ELSE IF os.bind.ret = -1
             THEN Effect(failure(errc(os.bind.errno)), c.fd, _url[s],
                         c.calls \o <<bindCall>>, NoWait)
             ELSE Effect(success(0), c.fd, _url[s], c.calls \o <<bindCall>>, NoWait)
    ELSE Effect(failure(make_error_code("OperationNotSupported")), _fd[s], _url[s], <<>>, NoWait)

\* --------------------------------------------------------------- connect
\* connect() that goes on to ::connect when create() has failed.
connect_IgnoresCreateFailure(s, url, os) ==
    IF _protocolDomain[s] = "Unix"
    THEN LET c == create(s, os.socket)
             connectCall == OsCall("connect", c.fd, os.connect.ret # -1, os.connect.errno, FALSE)
         IN  IF url.length >= UnixPathMax
             THEN Effect(failure(make_error_code("UnixSocketPathTooLong")), c.fd, _url[s],
                         c.calls, NoWait)
             ELSE IF os.connect.ret = -1 \/ ~c.res.ok
             THEN Effect(failure(errc(IF c.res.ok THEN os.connect.errno ELSE "EBADF")), c.fd,
                         _url[s], c.calls \o <<[connectCall EXCEPT !.ok = FALSE]>>, NoWait)
             ELSE Effect(success(0), c.fd, _url[s], c.calls \o <<connectCall>>, NoWait)
    ELSE Effect(failure(make_error_code("OperationNotSupported")), _fd[s], _url[s], <<>>, NoWait)

connect(s, url, os) ==
    IF _protocolDomain[s] = "Unix"
    THEN LET c == create(s, os.socket)
             connectCall == OsCall("connect", c.fd, os.connect.ret # -1, os.connect.errno, FALSE)
         IN  IF ~c.res.ok
             THEN Effect(failure(c.res.err), c.fd, _url[s], c.calls, NoWait)
             ELSE IF url.length >= UnixPathMax
             THEN Effect(failure(make_error_code("UnixSocketPathTooLong")), c.fd, _url[s],
                         c.calls, NoWait)
             ELSE IF os.connect.ret = -1
             THEN Effect(failure(errc(os.connect.errno)), c.fd, _url[s],
                         c.calls \o <<connectCall>>, NoWait)
             ELSE Effect(success(0), c.fd, _url[s], c.calls \o <<connectCall>>, NoWait)
    ELSE Effect(failure(make_error_code("OperationNotSupported")), _fd[s], _url[s], <<>>, NoWait)

\* ------------------------------------------------------------------ poll
\* poll() that takes "nothing became ready" for a failure of ::poll.
poll_TimeoutIsFailure(s, writePending, po) ==
    LET call == OsCallRet("poll", _fd[s], po)
        revents == po.revents
    IN  IF po.ret <= 0
        THEN Effect(failure(errc(po.errno)), _fd[s], _url[s], <<call>>, NoWait)
        ELSE Effect(success(0), _fd[s], _url[s], <<call>>,
                    [dataToRead |-> ("POLLIN" \in revents) \/ ("POLLPRI" \in revents),
                     urgentDataToRead |-> "POLLPRI" \in revents,
                     writingWillNotBlock |-> "POLLOUT" \in revents,
                     readHangup |-> "POLLRDHUP" \in revents,
                     writeHangup |-> "POLLHUP" \in revents,
                     error |-> "POLLERR" \in revents,
                     invalid |-> "POLLNVAL" \in revents])

\* The timeout only reaches ::poll; what it does is in the outcome po.
poll(s, writePending, po) ==
    LET call == OsCallRet("poll", _fd[s], po)
        revents == po.revents
    IN  IF po.ret = -1
        THEN Effect(failure(errc(po.errno)), _fd[s], _url[s], <<call>>, NoWait)
        ELSE Effect(success(0), _fd[s], _url[s], <<call>>,
                    [dataToRead |-> ("POLLIN" \in revents) \/ ("POLLPRI" \in revents),
                     urgentDataToRead |-> "POLLPRI" \in revents,
                     writingWillNotBlock |-> "POLLOUT" \in revents,
                     readHangup |-> "POLLRDHUP" \in revents,
                     writeHangup |-> "POLLHUP" \in revents,
                     error |-> "POLLERR" \in revents,
                     invalid |-> "POLLNVAL" \in revents])

\* ------------------------------------------------------- read / receive
\* receiveFrom() that takes "would block" for "no data" whether or not the
\* instance is non-blocking.
receiveFrom_AnyWouldBlockIsEmpty(s, size, rc) ==
    LET call == OsCallData("recvfrom", _fd[s], rc, size, rc.bytes)
    IN  IF rc.ret = -1
        THEN IF rc.errno \in {"EAGAIN", "EWOULDBLOCK"}
             THEN Effect(success(0), _fd[s], _url[s], <<call>>, NoWait)
             ELSE Effect(failure(errc(rc.errno)), _fd[s], _url[s], <<call>>, NoWait)
        ELSE Effect(success(rc.ret), _fd[s], _url[s], <<call>>, NoWait)

\* size: buffer.size(); rc: the outcome of ::recvfrom.
receiveFrom(s, size, rc) ==
    LET call == OsCallData("recvfrom", _fd[s], rc, size, rc.bytes)
    IN  IF rc.ret = -1
        THEN IF _nonBlocking[s] /\ rc.errno \in {"EAGAIN", "EWOULDBLOCK"}
             THEN Effect(success(0), _fd[s], _url[s], <<call>>, NoWait)
             ELSE Effect(failure(errc(rc.errno)), _fd[s], _url[s], <<call>>, NoWait)
        ELSE Effect(success(rc.ret), _fd[s], _url[s], <<call>>, NoWait)

\* read() that reports one byte less than it received.
read_DropsAByte(s, size, rc) ==
    LET e == receiveFrom(s, size, rc)
    IN  IF e.res.ok /\ e.res.value > 0 THEN [e EXCEPT !.res = success(e.res.value - 1)] ELSE e

read(s, size, rc) == receiveFrom(s, size, rc)

\* ----------------------------------------------------------------- write
write(s, buffer, wr) ==
    LET call == OsCallData("write", _fd[s], wr, Len(buffer), buffer)
    IN  IF wr.ret = -1
        THEN Effect(failure(errc(wr.errno)), _fd[s], _url[s], <<call>>, NoWait)
        ELSE Effect(success(wr.ret), _fd[s], _url[s], <<call>>, NoWait)

\* ---------------------------------------------------------------- sendTo
\* sendTo() that calls create() before it looks at the domain and type.
sendTo_CreateFirst(s, url, os) ==
    LET c == create(s, os.socket)
        nameToIndexResult == if_nametoindex(url.name)
        lookup == OsCall("if_nametoindex", -1, nameToIndexResult # 0,
                         IF nameToIndexResult = 0 THEN "ENODEV" ELSE "none", FALSE)
        send == OsCallRet("sendto", c.fd, os.send)
    IN  IF ~c.res.ok
        THEN Effect(failure(c.res.err), c.fd, _url[s], c.calls, NoWait)
        ELSE IF ~(_protocolDomain[s] = "Packet" /\ _type[s] = "Raw")
        THEN Effect(failure(make_error_code("OperationNotSupported")), c.fd, _url[s],
                    c.calls, NoWait)
        ELSE IF nameToIndexResult = 0
        THEN Effect(failure(errc(lookup.errno)), c.fd, _url[s], c.calls \o <<lookup>>, NoWait)
        ELSE Effect(success(os.send.ret), c.fd, _url[s], c.calls \o <<lookup, send>>, NoWait)

sendTo(s, url, os) ==
    IF _protocolDomain[s] = "Packet" /\ _type[s] = "Raw"
    THEN LET c == create(s, os.socket)
             nameToIndexResult == if_nametoindex(url.name)
             lookup == OsCall("if_nametoindex", -1, nameToIndexResult # 0,
                              IF nameToIndexResult = 0 THEN "ENODEV" ELSE "none", FALSE)
             send == OsCallRet("sendto", c.fd, os.send)
         IN  IF ~c.res.ok
             THEN Effect(failure(c.res.err), c.fd, _url[s], c.calls, NoWait)
             ELSE IF nameToIndexResult = 0
             THEN Effect(failure(errc(lookup.errno)), c.fd, _url[s], c.calls \o <<lookup>>, NoWait)
             \* "return nbytes;" comes before the check of nbytes == -1
             ELSE Effect(success(os.send.ret), c.fd, _url[s], c.calls \o <<lookup, send>>, NoWait)
    ELSE Effect(failure(make_error_code("OperationNotSupported")), _fd[s], _url[s], <<>>, NoWait)

\* ------------------------------------------------------------- the state
CallsOf(calls, name) == {i \in 1 .. Len(calls) : calls[i].call = name}

Opened(calls) ==
    {calls[i].fd : i \in {j \in CallsOf(calls, "socket") \cup CallsOf(calls, "socketpair") :
                            calls[j].ok}}
Released(calls) == {calls[i].fd : i \in {j \in CallsOf(calls, "close") : calls[j].released}}
Closed(calls) == {calls[i].fd : i \in CallsOf(calls, "close")}

IoCalls == {"bind", "connect", "sendto", "recvfrom", "write"}

\* The close calls of a descriptor are counted as 0, 1, "2 or more".
Bump(n) == IF n < 2 THEN n + 1 ELSE n

\* The OS after the system calls of one method.
\* The two descriptors of a socketpair() that succeeded.
Paired(calls) == {calls[i].fd : i \in {j \in CallsOf(calls, "socketpair") : calls[j].ok}}
\* The bytes the OS moved: taken from a write towards `fd`, handed out from `fd`.
Taken(calls, fd) ==
    IF \E i \in CallsOf(calls, "write") : calls[i].ok /\ calls[i].fd \in osOpen /\ peer[calls[i].fd] = fd
    THEN LET i == CHOOSE j \in CallsOf(calls, "write") : peer[calls[j].fd] = fd
         IN  SubSeq(calls[i].bytes, 1, calls[i].ret)
    ELSE <<>>
Delivered(calls, fd) ==
    IF \E i \in CallsOf(calls, "recvfrom") : calls[i].ok /\ calls[i].fd = fd
    THEN LET i == CHOOSE j \in CallsOf(calls, "recvfrom") : calls[j].fd = fd
         IN  calls[i].ret
    ELSE 0

OsApply(calls) ==
    /\ osOpen' = (osOpen \cup Opened(calls)) \ Released(calls)
    /\ peer' = [f \in Fds |->
                   IF f \in Released(calls) THEN -1
                   ELSE IF f \in Paired(calls) THEN CHOOSE g \in Paired(calls) : g # f
                   ELSE IF f \in Opened(calls) \/ peer[f] \in Released(calls) THEN -1
                   ELSE peer[f]]
    /\ hungUp' = ((hungUp \cup {f \in Fds : peer[f] \in Released(calls)})
                      \ Released(calls)) \ Opened(calls)
    /\ chan' = [f \in Fds |->
                   IF f \in Released(calls) \cup Opened(calls) THEN <<>>
                   ELSE IF f \notin osOpen THEN chan[f]
                   ELSE SubSeq(chan[f], Delivered(calls, f) + 1, Len(chan[f])) \o Taken(calls, f)]
    /\ closeCount' =
           [f \in Fds |->
               LET before == IF f \in Opened(calls) THEN 0 ELSE closeCount[f]
               IN  IF f \in Closed(calls) THEN Bump(before) ELSE before]

\* The round trip after method `op` of instance s: a write on an end of a
\* pair whose other end has nothing unread starts one; polls of the other
\* end follow until one reports data to read; a read of the other end with
\* room for all of the buffer completes it.  Any other call ends it.
NoTrip == [stage |-> "idle", from |-> 0, to |-> -1, buffer |-> <<>>, reported |-> success(0)]
TripAfter(s, op, e) ==
    IF op = "write" /\ IsEnd(_fd[s]) /\ _fd[s] \notin hungUp /\ chan[peer[_fd[s]]] = <<>>
    THEN [stage |-> "written", from |-> s, to |-> peer[_fd[s]], buffer |-> e.calls[1].bytes,
          reported |-> e.res]
    ELSE IF op = "poll" /\ trip.stage \in {"written", "readable"} /\ s # trip.from
            /\ _fd[s] = trip.to
    THEN IF e.res.ok /\ e.wait.dataToRead THEN [trip EXCEPT !.stage = "readable"] ELSE trip
    ELSE IF op = "read" /\ trip.stage = "readable" /\ s # trip.from /\ _fd[s] = trip.to
            /\ e.calls[1].size >= Len(trip.buffer)
    THEN [trip EXCEPT !.stage = "read"]
    ELSE NoTrip

Record(s, op, url, e) ==
    [op |-> op, sock |-> s, url |-> url, res |-> e.res, calls |-> e.calls,
     wait |-> e.wait, fdBefore |-> _fd[s], urlBefore |-> _url[s],
     again |-> IF last.op # op \/ last.sock # s THEN "no"
               ELSE IF last.res.ok THEN "afterOk" ELSE "afterFail"]

\* Method `op` of instance s, called with `url`, had effect e.
Step(s, op, url, e) ==
    /\ _fd' = [_fd EXCEPT ![s] = e.fd]
    /\ _url' = [_url EXCEPT ![s] = e.url]
    /\ OsApply(e.calls)
    /\ obtained' = [obtained EXCEPT ![s] = @ \cup Opened(e.calls)]
    /\ performedIo' =
           [performedIo EXCEPT ![s] = @ \/ (\E i \in 1 .. Len(e.calls) : e.calls[i].call \in IoCalls)]
    /\ lastBound' =
           [lastBound EXCEPT
              ![s] = IF \E i \in CallsOf(e.calls, "bind") : e.calls[i].ok THEN url ELSE @]
    /\ trip' = TripAfter(s, op, e)
    /\ last' = Record(s, op, url, e)
    /\ UNCHANGED <<lifecycle, config, server>>

NoCall ==
    [op |-> "none", sock |-> 0, url |-> EmptyUrl, res |-> success(0), calls |-> <<>>,
     wait |-> NoWait, fdBefore |-> -1, urlBefore |-> EmptyUrl, again |-> "no"]

\* The connections (one lws* each).  A client or an IncomingHttpRequest is
\* named after what made it: request k of connection c (k = 1 for the client
\* of a WebSocket connection); nullptr is <<0, 0>>.
Conns == 1 .. MaxConn
Objects == Conns \X (1 .. MaxRequests)
nullptr == <<0, 0>>
NoEvent == [reason |-> "none", wsi |-> 0, client |-> nullptr, request |-> nullptr]
\* A connection before its first callback.
NewWsi == [is |-> "new", requests |-> 0, phase |-> "idle", chunks |-> 0]

\* LWS_CALLBACK_PROTOCOL_INIT has run: the VhdWebSocketServer is zeroed.
InitServer ==
    /\ wsi = [c \in Conns |-> NewWsi]
    /\ vhd = [client |-> nullptr, request |-> nullptr]
    /\ webSocketClients = {}
    /\ heap = [r \in Objects |-> [state |-> "none", chunks |-> <<>>]]
    /\ dispatched = {}
    /\ crashed = FALSE
    /\ event = NoEvent
    /\ sendQueue = [c \in Conns |-> <<>>]
    /\ queued = [c \in Conns |-> 0]
    /\ writable = {}
    /\ written = [c \in Conns |-> <<>>]
    /\ httpHandlers = <<>>
    /\ webSocketHandlers = <<>>
    /\ registered = <<>>

Init ==
    /\ InitServer
    /\ lifecycle = [s \in Sockets |-> "none"]
    /\ _fd = [s \in Sockets |-> -1]
    /\ _protocolDomain = [s \in Sockets |-> "Unix"]
    /\ _type = [s \in Sockets |-> "Stream"]
    /\ _nonBlocking = [s \in Sockets |-> FALSE]
    /\ _url = [s \in Sockets |-> EmptyUrl]
    /\ osOpen = {}
    /\ peer = [f \in Fds |-> -1]
    /\ hungUp = {}
    /\ chan = [f \in Fds |-> <<>>]
    /\ trip = NoTrip
    /\ closeCount = [f \in Fds |-> 0]
    /\ obtained = [s \in Sockets |-> {}]
    /\ performedIo = [s \in Sockets |-> FALSE]
    /\ lastBound = [s \in Sockets |-> EmptyUrl]
    /\ last = NoCall

\* ---------------------------------------------------------------- actions
\* PosixSocket(protocolDomain, type, frameType, nonBlocking): _fd stays -1.
PosixSocket(s, protocolDomain, type, nonBlocking) ==
    /\ lifecycle[s] = "none"
    /\ lifecycle' = [lifecycle EXCEPT ![s] = "live"]
    /\ _protocolDomain' = [_protocolDomain EXCEPT ![s] = protocolDomain]
    /\ _type' = [_type EXCEPT ![s] = type]
    /\ _nonBlocking' = [_nonBlocking EXCEPT ![s] = nonBlocking]
    /\ last' = [NoCall EXCEPT !.op = "PosixSocket", !.sock = s]
    /\ UNCHANGED <<_fd, _url, osOpen, peer, hungUp, chan, trip, closeCount, obtained, performedIo,
                   lastBound, server>>

\* ~PosixSocket(): an unchecked close of a descriptor still stored.
DestroyPosixSocket(s, cl) ==
    /\ lifecycle[s] = "live"
    /\ lifecycle' = [lifecycle EXCEPT ![s] = "destroyed"]
    /\ LET calls == IF _fd[s] # -1
                    THEN <<OsCall("close", _fd[s], cl.ret # -1, cl.errno, cl.released)>>
                    ELSE <<>>
       IN  /\ OsApply(calls)
           /\ last' = Record(s, "~PosixSocket", EmptyUrl,
                             Effect(success(0), _fd[s], _url[s], calls, NoWait))
    /\ trip' = NoTrip
    /\ UNCHANGED <<_fd, _url, config, obtained, performedIo, lastBound, server>>

\* createUnnamedPair(): on success instances 1 and 2 are the two ends.
createUnnamedPair(protocolDomain, type, nonBlocking, sp) ==
    /\ \A s \in Sockets : lifecycle[s] = "none"
    /\ LET invalid == mapProtocolDomain(protocolDomain) = -1 \/ mapType(type) = -1
           calls == IF invalid THEN <<>>
                    ELSE IF sp.ret # 0 THEN <<OsCall("socketpair", -1, FALSE, sp.errno, FALSE)>>
                    ELSE <<OsCall("socketpair", sp.sd[1], TRUE, "none", FALSE),
                           OsCall("socketpair", sp.sd[2], TRUE, "none", FALSE)>>
           res == IF mapProtocolDomain(protocolDomain) = -1
                  THEN failure(make_error_code("InvalidDomain"))
                  ELSE IF mapType(type) = -1 THEN failure(make_error_code("InvalidType"))
                  ELSE IF sp.ret # 0 THEN failure(errc(sp.errno))
                  ELSE success(0)
       IN  /\ OsApply(calls)
           /\ last' = [NoCall EXCEPT !.op = "createUnnamedPair", !.res = res, !.calls = calls]
           /\ IF res.ok
              THEN /\ lifecycle' = [s \in Sockets |-> "live"]
                   /\ _fd' = [s \in Sockets |-> sp.sd[s]]
                   /\ _protocolDomain' = [s \in Sockets |-> protocolDomain]
                   /\ _type' = [s \in Sockets |-> type]
                   /\ _nonBlocking' = [s \in Sockets |-> nonBlocking]
                   /\ obtained' = [s \in Sockets |-> {sp.sd[s]}]
              ELSE UNCHANGED <<lifecycle, _fd, config, obtained>>
    /\ trip' = NoTrip
    /\ UNCHANGED <<_url, performedIo, lastBound, server>>

CreateUnnamedPair ==
    \E c \in ConfigInputs, nb \in BOOLEAN :
        \E sp \in SocketpairOutcomes(c[1]) : createUnnamedPair(c[1], c[2], nb, sp)

Bind(s) ==
    /\ lifecycle[s] = "live"
    /\ \E url \in UrlInputs, fail \in {"none", "socket", "bind", "setsockopt"} :
           Step(s, "bind", url, bind(s, url, OsOutcomes(fail, 0)))

Connect(s) ==
    /\ lifecycle[s] = "live"
    /\ \E url \in UrlInputs, fail \in {"none", "socket", "connect"} :
           Step(s, "connect", url, connect(s, url, OsOutcomes(fail, 0)))

SendTo(s) ==
    /\ lifecycle[s] = "live"
    /\ \E url \in UrlInputs,
          os \in {OsOutcomes("socket", 0), OsOutcomes("sendto", 0)}
                 \cup {OsOutcomes("none", sent) : sent \in 0 .. MaxBuf} :
           Step(s, "sendTo", url, sendTo(s, url, os))

Poll(s) ==
    /\ lifecycle[s] = "live"
    /\ \E writePending \in BOOLEAN :
           \E po \in PollOutcomes(_fd[s], writePending) :
               Step(s, "poll", EmptyUrl, poll(s, writePending, po))

Read(s) ==
    /\ lifecycle[s] = "live"
    /\ \E rc \in RecvOn(_fd[s], MaxBuf, _nonBlocking[s]) :
           Step(s, "read", EmptyUrl, read(s, MaxBuf, rc))

Write(s) ==
    /\ lifecycle[s] = "live"
    /\ \E wr \in WriteOn(_fd[s], Filler(MaxBuf), _nonBlocking[s]) :
           Step(s, "write", EmptyUrl, write(s, Filler(MaxBuf), wr))

Close(s) ==
    /\ lifecycle[s] = "live"
    /\ \E cl \in OnFdClose(_fd[s]) : Step(s, "close", EmptyUrl, close(s, cl))

Destroy(s) == \E cl \in OnFdClose(_fd[s]) : DestroyPosixSocket(s, cl)

\* Instance 1 is constructed by its user (Spec), or both instances are made
\* by the pair factory (SpecPair, SpecExchange).
Construct ==
    /\ \A s \in Sockets : lifecycle[s] = "none"
    /\ \E c \in ConfigInputs, nb \in BOOLEAN : PosixSocket(1, c[1], c[2], nb)

Next ==
    \/ Construct
    \/ \E s \in Sockets : Bind(s)
    \/ \E s \in Sockets : Connect(s)
    \/ \E s \in Sockets : SendTo(s)
    \/ \E s \in Sockets : Poll(s)
    \/ \E s \in Sockets : Read(s)
    \/ \E s \in Sockets : Write(s)
    \/ \E s \in Sockets : Close(s)
    \/ \E s \in Sockets : Destroy(s)

Spec == Init /\ [][Next]_vars

\* The ends of a pair are used with one url.
PairUrl == Url("lo", 2)

PairBind(s) ==
    /\ lifecycle[s] = "live"
    /\ \E fail \in {"none", "socket", "bind"} :
           Step(s, "bind", PairUrl, bind(s, PairUrl, OsOutcomes(fail, 0)))

PairConnect(s) ==
    /\ lifecycle[s] = "live"
    /\ \E fail \in {"none", "socket", "connect"} :
           Step(s, "connect", PairUrl, connect(s, PairUrl, OsOutcomes(fail, 0)))

PairSendTo(s) ==
    /\ lifecycle[s] = "live"
    /\ Step(s, "sendTo", PairUrl, sendTo(s, PairUrl, OsOutcomes("none", 0)))

NextPair ==
    \/ CreateUnnamedPair
    \/ \E s \in Sockets : PairBind(s)
    \/ \E s \in Sockets : PairConnect(s)
    \/ \E s \in Sockets : PairSendTo(s)
    \/ \E s \in Sockets : Close(s)
    \/ \E s \in Sockets : Destroy(s)

SpecPair == Init /\ [][NextPair]_vars

\* The ends of a pair exchange buffers.
PairWrite(s) ==
    /\ lifecycle[s] = "live"
    /\ \E buffer \in BufferInputs :
           \E wr \in WriteOn(_fd[s], buffer, _nonBlocking[s]) :
               Step(s, "write", EmptyUrl, write(s, buffer, wr))

PairRead(s) ==
    /\ lifecycle[s] = "live"
    /\ \E size \in SizeInputs :
           \E rc \in RecvOn(_fd[s], size, _nonBlocking[s]) :
               Step(s, "read", EmptyUrl, read(s, size, rc))

NextExchange ==
    \/ CreateUnnamedPair
    \/ \E s \in Sockets : PairWrite(s)
    \/ \E s \in Sockets : Poll(s)
    \/ \E s \in Sockets : PairRead(s)
    \/ \E s \in Sockets : Close(s)
    \/ \E s \in Sockets : Destroy(s)

SpecExchange == Init /\ [][NextExchange]_vars

\* ================================================================ server
\* WebSocketServerLwsPrivate::addWebSocketClient / removeWebSocketClient
addWebSocketClient(clients, client) == clients \cup {client}
removeWebSocketClient(clients, client) == clients \ {client}

\* WebSocketServerLwsPrivate::handleHttpRequest(client, request), called by the
\* callback of request `of`.
handleHttpRequest(client, request, of, reason) ==
    [client |-> client, request |-> request, of |-> of, reason |-> reason,
     chunks |-> heap[request].chunks]

\* lws_callback_on_writable(wsi): a writable callback of the connection is due.
lws_callback_on_writable(requested, c) == requested \cup {c}

\* WebSocketServerClientLwsImpl: the queue of outgoing fragments of the client
\* of connection c.  send queues the client's next fragment, dataToSend takes
\* the first one off the queue (no payload when the queue is empty).
NoPayload == 0
hasDataToSend(queue) == queue # <<>>
dataToSend(queue) ==
    IF queue = <<>> THEN [payload |-> NoPayload, rest |-> queue]
    ELSE [payload |-> Head(queue), rest |-> Tail(queue)]

\* The request in progress on connection c.
Current(c) == <<c, wsi[c].requests>>

Callback(reason, c) ==
    [reason |-> reason, wsi |-> c, client |-> vhd.client, request |-> vhd.request]

\* handleHttpNewConnection(wsi, server), hasBody: a Content-Length header is there.
handleHttpNewConnection(c, hasBody) ==
    LET new == <<c, wsi[c].requests + 1>>
    IN  /\ vhd' = [client |-> new, request |-> new]
        /\ webSocketClients' = addWebSocketClient(webSocketClients, new)
        /\ heap' = [heap EXCEPT ![new] = [state |-> "live", chunks |-> <<>>]]
        /\ IF hasBody
           THEN /\ wsi' = [wsi EXCEPT ![c] = [is |-> "http", requests |-> new[2],
                                               phase |-> "body", chunks |-> 0]]
                /\ UNCHANGED dispatched
           ELSE /\ wsi' = [wsi EXCEPT ![c] = [is |-> "http", requests |-> new[2],
                                               phase |-> "done", chunks |-> 0]]
                /\ dispatched' = dispatched \cup
                       {[client |-> new, request |-> new, of |-> new,
                         reason |-> "LWS_CALLBACK_HTTP", chunks |-> <<>>]}

\* A request arrives on a connection that is new or has answered its last one.
LWS_CALLBACK_HTTP(c, hasBody) ==
    /\ ~crashed
    /\ wsi[c].is \in {"new", "http"} /\ wsi[c].phase \in {"idle", "done"}
    /\ wsi[c].requests < MaxRequests
    /\ handleHttpNewConnection(c, hasBody)
    /\ event' = Callback("LWS_CALLBACK_HTTP", c)
    /\ UNCHANGED <<crashed, outgoing, handlers, sockets>>

\* vhd->request->insert(bytes); through a null vhd->request the behaviour is
\* undefined: the process dies, or goes on with nothing inserted.
LWS_CALLBACK_HTTP_BODY(c) ==
    /\ ~crashed
    /\ wsi[c].is = "http" /\ wsi[c].phase = "body" /\ wsi[c].chunks < MaxChunks
    /\ wsi' = [wsi EXCEPT ![c].chunks = @ + 1]
    /\ IF vhd.request # nullptr
       THEN /\ heap' = [heap EXCEPT ![vhd.request].chunks = Append(@, Current(c))]
            /\ UNCHANGED crashed
       ELSE /\ crashed' \in BOOLEAN
            /\ UNCHANGED heap
    /\ event' = Callback("LWS_CALLBACK_HTTP_BODY", c)
    /\ UNCHANGED <<vhd, webSocketClients, dispatched, outgoing, handlers, sockets>>

\* vhd->request->completedRequest() and handleHttpRequest(vhd->client, *request).
LWS_CALLBACK_HTTP_BODY_COMPLETION(c) ==
    /\ ~crashed
    /\ wsi[c].is = "http" /\ wsi[c].phase = "body" /\ wsi[c].chunks = MaxChunks
    /\ wsi' = [wsi EXCEPT ![c].phase = "done"]
    /\ IF vhd.request # nullptr
       THEN /\ dispatched' = dispatched \cup
                   {handleHttpRequest(vhd.client, vhd.request, Current(c),
                                      "LWS_CALLBACK_HTTP_BODY_COMPLETION")}
            /\ UNCHANGED crashed
       ELSE /\ crashed' \in BOOLEAN
            /\ UNCHANGED dispatched
    /\ event' = Callback("LWS_CALLBACK_HTTP_BODY_COMPLETION", c)
    /\ UNCHANGED <<vhd, webSocketClients, heap, outgoing, handlers, sockets>>

\* delete vhd->request; removeWebSocketClient(vhd->client); both are reset.
LWS_CALLBACK_CLOSED_HTTP(c) ==
    /\ ~crashed
    /\ wsi[c].is = "http"
    /\ wsi' = [wsi EXCEPT ![c].is = "closed"]
    /\ heap' = IF vhd.request # nullptr
               THEN [heap EXCEPT ![vhd.request].state = "deleted"]
               ELSE heap
    /\ webSocketClients' = removeWebSocketClient(webSocketClients, vhd.client)
    /\ vhd' = [client |-> nullptr, request |-> nullptr]
    /\ event' = Callback("LWS_CALLBACK_CLOSED_HTTP", c)
    /\ UNCHANGED <<dispatched, crashed, outgoing, handlers, sockets>>

\* A connection was upgraded to a WebSocket; lws_callback_on_writable(wsi).
LWS_CALLBACK_ESTABLISHED(c) ==
    /\ ~crashed
    /\ wsi[c].is = "new"
    /\ wsi' = [wsi EXCEPT ![c] = [is |-> "ws", requests |-> 1, phase |-> "idle", chunks |-> 0]]
    /\ vhd' = [vhd EXCEPT !.client = <<c, 1>>]
    /\ webSocketClients' = addWebSocketClient(webSocketClients, <<c, 1>>)
    /\ writable' = lws_callback_on_writable(writable, c)
    /\ event' = Callback("LWS_CALLBACK_ESTABLISHED", c)
    /\ UNCHANGED <<heap, dispatched, crashed, sendQueue, queued, written, handlers, sockets>>

\* removeWebSocketClient(vhd->client); vhd->client.reset().  The connection
\* was open, or a callback of it had returned -1; a closed connection gets no
\* writable callback any more.
LWS_CALLBACK_CLOSED(c) ==
    /\ ~crashed
    /\ wsi[c].is \in {"ws", "dropped"}
    /\ wsi' = [wsi EXCEPT ![c].is = "closed"]
    /\ webSocketClients' = removeWebSocketClient(webSocketClients, vhd.client)
    /\ vhd' = [vhd EXCEPT !.client = nullptr]
    /\ writable' = writable \ {c}
    /\ event' = Callback("LWS_CALLBACK_CLOSED", c)
    /\ UNCHANGED <<heap, dispatched, crashed, sendQueue, queued, written, handlers, sockets>>

\* The application queues the next fragment on the client of an open WebSocket.
send(c) ==
    /\ ~crashed
    /\ wsi[c].is = "ws" /\ queued[c] < MaxFragments
    /\ queued' = [queued EXCEPT ![c] = @ + 1]
    /\ sendQueue' = [sendQueue EXCEPT ![c] = Append(@, queued[c] + 1)]
    /\ event' = Callback("send", c)
    /\ UNCHANGED <<wsi, vhd, webSocketClients, heap, dispatched, crashed,
                   writable, written, handlers, sockets>>

\* int result compared with size_t: the int is converted to unsigned, so -1
\* becomes the largest size_t.  The model's size_t has SizeBits bits, which is
\* wider than every size in it, as 64 bits are wider than every payload.
SizeBits == 16
SizeMax == 2 ^ SizeBits
ToSizeT(n) == n % SizeMax

\* The results of lws_write for a fragment of `size` bytes: all of it, less, or
\* the error -1.
LwsWriteResults(size) == {size, size - 1, -1}

\* One fragment is one byte past LWS_PRE.
FragmentSize == 1

\* case LWS_CALLBACK_SERVER_WRITEABLE: the client is the one in vhd->client.
\* Calling dataToSend through a null vhd->client is undefined: the process
\* dies or carries on.  A handler that returns -1 makes lws drop the
\* connection, and so does a failed lws_write.
LWS_CALLBACK_SERVER_WRITEABLE(c, result) ==
    /\ ~crashed
    /\ wsi[c].is = "ws" /\ c \in writable
    /\ event' = Callback("LWS_CALLBACK_SERVER_WRITEABLE", c)
    /\ IF vhd.client = nullptr
       THEN /\ crashed' \in BOOLEAN
            /\ writable' = writable \ {c}
            /\ UNCHANGED <<wsi, sendQueue, written>>
       ELSE LET of == vhd.client[1]
                data == dataToSend(sendQueue[of])
                complete == ~(ToSizeT(result) < FragmentSize)
                rearm == IF hasDataToSend(data.rest)
                         THEN lws_callback_on_writable(writable \ {c}, c)
                         ELSE writable \ {c}
            IN  /\ sendQueue' = [sendQueue EXCEPT ![of] = data.rest]
                /\ IF data.payload = NoPayload
                   THEN /\ writable' = rearm
                        /\ UNCHANGED <<wsi, written>>
                   ELSE /\ written' = IF result = FragmentSize
                                      THEN [written EXCEPT ![c] = Append(@, <<of, data.payload>>)]
                                      ELSE written
                        /\ wsi' = IF result = FragmentSize THEN wsi
                                  ELSE [wsi EXCEPT ![c].is = "dropped"]
                        /\ writable' = IF complete THEN rearm ELSE writable \ {c}
                /\ UNCHANGED crashed
    /\ UNCHANGED <<vhd, webSocketClients, heap, dispatched, queued, handlers, sockets>>

\* WebSocketServerLws::work(): a writable callback is requested for every
\* registered client that has data to send; lws_service then runs the
\* callbacks that are due.  client->m_wsi of a client whose connection is
\* closed is dangling: using it is undefined, the process dies or carries on.
work ==
    /\ ~crashed
    /\ LET withData == {cl \in webSocketClients : hasDataToSend(sendQueue[cl[1]])}
           dangling == {cl \in withData : wsi[cl[1]].is = "closed"}
       IN  /\ writable' = writable \cup {cl[1] : cl \in withData \ dangling}
           /\ IF dangling = {} THEN UNCHANGED crashed ELSE crashed' \in BOOLEAN
    /\ event' = Callback("work", 0)
    /\ UNCHANGED <<wsi, vhd, webSocketClients, heap, dispatched, sendQueue, queued,
                   written, handlers, sockets>>

\* The methods and urls the application registers handlers for.
HttpMethods == {"Get", "Post"}
Urls == {"/a", "/b"}

\* The first of the matching positions of a handler list, 0 if none: the loop
\* of handle and handleWebSocket returns at its first match.
FirstMatch(hits) ==
    IF hits = {} THEN 0 ELSE CHOOSE i \in hits : \A j \in hits : i <= j

\* handle, were it to compare the url alone.
handle_MatchesUrlOnly(method, url, callback) ==
    LET same(it) == ~(it.url # url)
        at == FirstMatch({i \in 1 .. Len(httpHandlers) : same(httpHandlers[i])})
    IN  IF at # 0
        THEN [httpHandlers EXCEPT ![at].callbacks = Append(@, callback)]
        ELSE Append(httpHandlers,
                    [url |-> url, method |-> method, callbacks |-> <<callback>>])

\* WebSocketServerLws::handle(method, url, callback): the callback joins the
\* entry of (method, url), which is made when there is none.
handle(method, url, callback) ==
    LET same(it) == ~(it.url # url \/ it.method # method)
        at == FirstMatch({i \in 1 .. Len(httpHandlers) : same(httpHandlers[i])})
    IN  IF at # 0
        THEN [httpHandlers EXCEPT ![at].callbacks = Append(@, callback)]
        ELSE Append(httpHandlers,
                    [url |-> url, method |-> method, callbacks |-> <<callback>>])

\* WebSocketServerLws::handleWebSocket(url, callback)
handleWebSocket(url, callback) ==
    LET same(it) == ~(it.url # url)
        at == FirstMatch({i \in 1 .. Len(webSocketHandlers) :
                              same(webSocketHandlers[i])})
    IN  IF at # 0
        THEN [webSocketHandlers EXCEPT ![at].callbacks = Append(@, callback)]
        ELSE Append(webSocketHandlers, [url |-> url, callbacks |-> <<callback>>])

\* The application registers a callback; callbacks are named after the number
\* of the registration.
Handle(method, url) ==
    /\ Len(registered) < MaxRegistrations
    /\ LET callback == Len(registered) + 1
       IN  /\ httpHandlers' = handle(method, url, callback)
           /\ registered' = Append(registered, [list |-> "http", method |-> method,
                                                url |-> url, callback |-> callback])
    /\ UNCHANGED <<webSocketHandlers, wsi, vhd, webSocketClients, heap, dispatched,
                   crashed, event, outgoing, sockets>>

HandleWebSocket(url) ==
    /\ Len(registered) < MaxRegistrations
    /\ LET callback == Len(registered) + 1
       IN  /\ webSocketHandlers' = handleWebSocket(url, callback)
           /\ registered' = Append(registered, [list |-> "ws", method |-> "",
                                                url |-> url, callback |-> callback])
    /\ UNCHANGED <<httpHandlers, wsi, vhd, webSocketClients, heap, dispatched,
                   crashed, event, outgoing, sockets>>

registerHandlers ==
    \/ \E method \in HttpMethods, url \in Urls : Handle(method, url)
    \/ \E url \in Urls : HandleWebSocket(url)

SpecHandlers == Init /\ [][registerHandlers]_vars

\* The WebSocket side of the server: connections, the application's sends,
\* the worker thread.
serveWebSockets ==
    \/ \E c \in Conns : LWS_CALLBACK_ESTABLISHED(c)
    \/ \E c \in Conns : send(c)
    \/ work
    \/ \E c \in Conns, result \in LwsWriteResults(FragmentSize) :
           LWS_CALLBACK_SERVER_WRITEABLE(c, result)
    \/ \E c \in Conns : LWS_CALLBACK_CLOSED(c)

SpecOutgoing == Init /\ [][serveWebSockets]_vars

callbackWebsocketServer ==
    \/ \E c \in Conns, hasBody \in BOOLEAN : LWS_CALLBACK_HTTP(c, hasBody)
    \/ \E c \in Conns : LWS_CALLBACK_HTTP_BODY(c)
    \/ \E c \in Conns : LWS_CALLBACK_HTTP_BODY_COMPLETION(c)
    \/ \E c \in Conns : LWS_CALLBACK_CLOSED_HTTP(c)
    \/ \E c \in Conns : LWS_CALLBACK_ESTABLISHED(c)
    \/ \E c \in Conns : LWS_CALLBACK_CLOSED(c)

SpecServer == Init /\ [][callbackWebsocketServer]_vars

\* ================================================================ claims
IsUnix(s) == _protocolDomain[s] = "Unix"
IsPacketRaw(s) == _protocolDomain[s] = "Packet" /\ _type[s] = "Raw"
\* The system calls of the latest method call that are named `name`.
Issued(name) == {last.calls[i] : i \in CallsOf(last.calls, name)}
\* The latest method call left the fields of its instance as they were.
FieldsUnchanged ==
    /\ _fd[last.sock] = last.fdBefore
    /\ _url[last.sock] = last.urlBefore

\* C1: once an instance is destroyed, every descriptor it obtained from the OS
\* has had the OS close issued for it exactly once (no leak, no double close).
C1_ClosedExactlyOnce ==
    \A s \in Sockets :
        lifecycle[s] = "destroyed" => \A f \in obtained[s] : closeCount[f] = 1

\* C2: a bind, connect or sendTo on an instance that already holds a
\* descriptor issues no socket() call and leaves the stored descriptor as it was.
C2_CreatedOnFirstUseOnly ==
    (last.op \in {"bind", "connect", "sendTo"} /\ last.fdBefore # Sentinel)
        => (Issued("socket") = {} /\ _fd[last.sock] = last.fdBefore)

\* C3 (as stated): a close() directly after a close() on the same instance:
\* both report success, the second issues no OS close and changes no state.
C3_CloseTwiceBothSucceed ==
    (last.op = "close" /\ last.again # "no")
        => (last.again = "afterOk" /\ last.res.ok /\ last.calls = <<>> /\ FieldsUnchanged)

\* C3 (amended): a close() directly after a close() on the same instance that
\* reported success reports success, issues no OS call and changes no state.
C3_CloseAfterCloseIsNoOp ==
    (last.op = "close" /\ last.again = "afterOk")
        => (last.res = success(0) /\ last.calls = <<>> /\ FieldsUnchanged)

\* A second close() after a first one that closed a descriptor of the instance.
C3_Witness ==
    /\ last.op = "close" /\ last.again = "afterOk"
    /\ \E f \in obtained[last.sock] : closeCount[f] = 1 /\ f \notin osOpen

\* C4: a close() whose OS close fails reports the translated errno of that
\* call and leaves _fd as it was, and a close() directly after it issues the
\* OS close on that same descriptor again; a close() whose OS close succeeds
\* leaves _fd = -1.
C4_CloseOutcome ==
    last.op = "close" =>
        /\ \A c \in Issued("close") :
               /\ c.fd = last.fdBefore
               /\ IF c.ok
                  THEN last.res.ok /\ _fd[last.sock] = Sentinel
                  ELSE /\ last.res = failure(errc(c.errno))
                       /\ _fd[last.sock] = last.fdBefore
                       /\ last.fdBefore # Sentinel
        /\ last.again = "afterFail" => \E c \in Issued("close") : c.fd = last.fdBefore

\* A close() that fails directly after a close() that failed: the retry.
C4_Witness ==
    /\ last.op = "close" /\ last.again = "afterFail" /\ ~last.res.ok
    /\ _fd[last.sock] # Sentinel

\* C5: bind(url) and connect(url) on a Unix-domain instance with a url of 108
\* bytes or more return UnixSocketPathTooLong and issue no OS bind or connect.
C5_PathTooLongReported ==
    (last.op \in {"bind", "connect"} /\ IsUnix(last.sock) /\ last.url.length >= UnixPathMax)
        => /\ last.res = failure(make_error_code("UnixSocketPathTooLong"))
           /\ Issued("bind") = {} /\ Issued("connect") = {}

\* C6: such a bind(url) or connect(url) issues no system call at all, so the
\* stored descriptor and the open descriptors are what they were before it.
C6_PathTooLongBeforeAnySyscall ==
    (last.op \in {"bind", "connect"} /\ IsUnix(last.sock) /\ last.url.length >= UnixPathMax)
        => (last.calls = <<>> /\ _fd[last.sock] = last.fdBefore)

\* C7: bind on an instance that is neither Unix nor Packet/Raw, connect on one
\* that is not Unix and sendTo on one that is not Packet/Raw return
\* OperationNotSupported, issue no system call and leave _fd and _url alone.
C7_Unsupported ==
    \/ last.op = "bind" /\ ~IsUnix(last.sock) /\ ~IsPacketRaw(last.sock)
    \/ last.op = "connect" /\ ~IsUnix(last.sock)
    \/ last.op = "sendTo" /\ ~IsPacketRaw(last.sock)

C7_OperationNotSupported ==
    C7_Unsupported
        => /\ last.res = failure(make_error_code("OperationNotSupported"))
           /\ last.calls = <<>>
           /\ FieldsUnchanged

\* sendTo on a Unix-domain instance that holds an open descriptor.
C7_Witness ==
    /\ last.op = "sendTo" /\ IsUnix(last.sock)
    /\ _fd[last.sock] \in osOpen
    /\ ~last.res.ok

\* C8: a sendTo whose OS send failed returns a failure that carries the
\* translated errno of the send; it never returns a success value.
C8_SendFailurePropagates ==
    last.op = "sendTo" =>
        \A c \in Issued("sendto") : ~c.ok => last.res = failure(errc(c.errno))

\* C9: an instance whose descriptor is the sentinel has issued no OS bind,
\* connect, send or receive so far, and no method issues a system call that
\* takes a descriptor with the sentinel.
C9_NoIoOnSentinel ==
    /\ \A s \in Sockets : (lifecycle[s] = "live" /\ _fd[s] = Sentinel) => ~performedIo[s]
    /\ \A i \in 1 .. Len(last.calls) :
           last.calls[i].call \in IoCalls \cup {"poll"} => last.calls[i].fd # Sentinel

\* C10: boundUrl is the url of the latest bind whose OS bind succeeded, and
\* empty when no OS bind has succeeded.
C10_BoundUrlIsLatestBound ==
    \A s \in Sockets : lifecycle[s] # "none" => _url[s] = lastBound[s]
\* The latest method call reported the translated errno of the last system
\* call it issued, which failed.
ReturnedLastOsError ==
    /\ ~last.res.ok
    /\ last.calls # <<>>
    /\ LET c == last.calls[Len(last.calls)] IN ~c.ok /\ last.res.err = errc(c.errno)

\* C11: a bind(url) on a Packet/Raw instance whose url names no interface
\* reports the translated OS error, issues neither the OS bind nor the
\* membership request, and leaves the bound url as it was.
C11_UnresolvedInterfaceRejected ==
    (last.op = "bind" /\ IsPacketRaw(last.sock) /\ if_nametoindex(last.url.name) = 0)
        => /\ ReturnedLastOsError
           /\ Issued("bind") = {} /\ Issued("setsockopt") = {}
           /\ _url[last.sock] = last.urlBefore

\* The lookup of the interface failed on an instance that was bound before.
C11_Witness ==
    /\ last.op = "bind" /\ IsPacketRaw(last.sock)
    /\ \E c \in Issued("if_nametoindex") : ~c.ok
    /\ last.res = failure(errc("ENODEV"))
    /\ last.urlBefore # EmptyUrl /\ _url[last.sock] = last.urlBefore

WouldBlock == {"EAGAIN", "EWOULDBLOCK"}

\* C12: a read()/receiveFrom() whose OS receive fails with "would block" on a
\* non-blocking instance reports success with 0 bytes; any other failed
\* receive, and "would block" on an instance that is not non-blocking, reports
\* the translated errno; a receive that succeeds reports the byte count of the
\* OS unchanged.
C12_ReceiveOutcome ==
    last.op = "read" =>
        /\ Cardinality(Issued("recvfrom")) = 1
        /\ \A c \in Issued("recvfrom") :
               IF c.ok THEN last.res = success(c.ret)
               ELSE IF _nonBlocking[last.sock] /\ c.errno \in WouldBlock
               THEN last.res = success(0)
               ELSE last.res = failure(errc(c.errno))

\* A receive on an open descriptor of a non-blocking instance would block.
C12_Witness ==
    /\ last.op = "read" /\ _nonBlocking[last.sock] /\ last.res = success(0)
    /\ \E c \in Issued("recvfrom") : ~c.ok /\ c.errno \in WouldBlock /\ c.fd \in osOpen

\* C13: poll() reports a failure exactly when ::poll itself fails; when ::poll
\* reports no ready descriptor, poll() reports success with all seven flags false.
C13_PollOutcome ==
    last.op = "poll" =>
        /\ Cardinality(Issued("poll")) = 1
        /\ \A c \in Issued("poll") :
               /\ ~last.res.ok <=> ~c.ok
               /\ ~c.ok => last.res = failure(errc(c.errno))
               /\ c.ret = 0 => (last.res.ok /\ last.wait = NoWait)

\* ::poll timed out on an open descriptor.
C13_Witness ==
    /\ last.op = "poll" /\ last.res.ok /\ last.wait = NoWait
    /\ \E c \in Issued("poll") : c.ret = 0 /\ c.fd \in osOpen

\* C16: a bind() on a Packet/Raw instance whose OS bind succeeds and whose
\* membership request fails reports the translated errno of the request,
\* keeps the descriptor, which stays open and bound, stores the interface
\* name as the bound url, and issues no close.
C16_BindNotRolledBack ==
    (last.op = "bind" /\ IsPacketRaw(last.sock))
        => \A m \in Issued("setsockopt") :
               ~m.ok =>
                   /\ last.res = failure(errc(m.errno))
                   /\ _fd[last.sock] # Sentinel /\ _fd[last.sock] \in osOpen
                   /\ \E b \in Issued("bind") : b.ok /\ b.fd = _fd[last.sock]
                   /\ _url[last.sock] = last.url /\ lastBound[last.sock] = last.url
                   /\ Issued("close") = {}

\* The membership request failed after the OS bind to "eth0" succeeded.
C16_Witness ==
    /\ last.op = "bind" /\ IsPacketRaw(last.sock) /\ ~last.res.ok
    /\ \E m \in Issued("setsockopt") : ~m.ok
    /\ _url[last.sock] = Url("eth0", 4) /\ last.urlBefore # Url("eth0", 4)

CreatingOps == {"bind", "connect", "sendTo"}

\* C17: the first system call of a bind, connect or sendTo is the socket() of
\* create(); when it fails the method reports exactly the error of create()
\* and issues no further system call.
C17_CreateComesFirst ==
    (last.op \in CreatingOps /\ last.calls # <<>>)
        => /\ last.calls[1].call = "socket"
           /\ ~last.calls[1].ok =>
                  (last.res = failure(errc(last.calls[1].errno)) /\ Len(last.calls) = 1)

\* create() failed in a connect() that would otherwise have gone on.
C17_Witness ==
    /\ last.op = "connect" /\ last.url.length < UnixPathMax
    /\ Len(last.calls) = 1 /\ ~last.calls[1].ok
    /\ last.res = failure(errc("EMFILE"))

\* C18: a bind, connect or sendTo that reports a failure on an instance that
\* held a descriptor leaves the stored descriptor as it was before the call.
C18_FailureKeepsDescriptor ==
    (last.op \in CreatingOps /\ ~last.res.ok /\ last.fdBefore # Sentinel)
        => _fd[last.sock] = last.fdBefore

Live(s) == lifecycle[s] = "live"

\* C14: the two instances of a createUnnamedPair() that succeeded hold two
\* distinct descriptors; whatever is then called on either of them, no open
\* descriptor is stored in both, and a close() or the destruction of one
\* never closes the descriptor the other one stores.
C14_PairEndsOwnTheirDescriptors ==
    /\ (last.op = "createUnnamedPair" /\ last.res.ok)
           => (_fd[1] # _fd[2] /\ {_fd[1], _fd[2]} \subseteq osOpen)
    /\ \A s, t \in Sockets :
           (s # t /\ Live(s) /\ Live(t) /\ _fd[s] \in osOpen) => _fd[t] # _fd[s]
    /\ last.op \in {"close", "~PosixSocket"}
           => \A c \in Issued("close"), t \in Sockets \ {last.sock} :
                  (Live(t) /\ c.released) => _fd[t] # c.fd

\* The read that completed the round trip returned all of the written buffer,
\* byte for byte, and left nothing of it behind.
ReadReturnedTheBuffer ==
    /\ last.op = "read" /\ last.res = success(Len(trip.buffer))
    /\ \A c \in Issued("recvfrom") : SubSeq(c.bytes, 1, last.res.value) = trip.buffer
    /\ _fd[last.sock] = trip.to /\ chan[trip.to] = <<>>

\* C15 (as stated): after a write() of a buffer of K bytes on one end of a
\* pair whose other end has nothing unread, once poll() on the other end has
\* reported dataToRead, a read() there with a buffer of at least K bytes
\* returns exactly the K bytes written, in order, and leaves none behind.
C15_RoundTrip == trip.stage = "read" => ReadReturnedTheBuffer

\* C15 (amended): the same for a write() that reported K bytes written.
C15_RoundTripOfWholeWrite ==
    (trip.stage = "read" /\ trip.reported = success(Len(trip.buffer)))
        => ReadReturnedTheBuffer

\* A round trip of a buffer of two different bytes was completed.
C15_Witness ==
    /\ trip.stage = "read" /\ trip.reported = success(Len(trip.buffer))
    /\ \E i, j \in DOMAIN trip.buffer : trip.buffer[i] # trip.buffer[j]
    /\ last.op = "read" /\ last.res.ok

OpenWebSockets == {c \in Conns : wsi[c].is = "ws"}
\* No connection has carried an HTTP request.
OnlyWebSockets == \A r \in Objects : heap[r].state = "none"

\* C19: while WebSocket connections are established and closed in any order,
\* after each callback the registered clients are exactly the clients of the
\* open connections, one each, and LWS_CALLBACK_CLOSED of a connection
\* removes the client its own LWS_CALLBACK_ESTABLISHED made.
C19_OneClientPerOpenConnection ==
    OnlyWebSockets =>
        /\ webSocketClients = {<<c, 1>> : c \in OpenWebSockets}
        /\ event.reason = "LWS_CALLBACK_CLOSED" => event.client = <<event.wsi, 1>>

\* The calls of handleHttpRequest that were handed request r.
DispatchesOf(r) == {d \in dispatched : d.request = r}

\* C20: every call of handleHttpRequest is handed the IncomingHttpRequest and
\* the client of the request whose callback makes it, with the body chunks of
\* that request and no others; no IncomingHttpRequest is handed over twice;
\* and once a connection is closed every IncomingHttpRequest allocated for
\* its requests has been deleted.
C20_DispatchedAndDeletedOnce ==
    /\ \A d \in dispatched :
           /\ d.request = d.of /\ d.client = d.of
           /\ d.chunks = [i \in 1 .. Len(d.chunks) |-> d.of]
           /\ Len(d.chunks) = IF d.reason = "LWS_CALLBACK_HTTP" THEN 0 ELSE MaxChunks
    /\ \A r \in Objects : Cardinality(DispatchesOf(r)) <= 1
    /\ \A r \in Objects :
           (wsi[r[1]].is = "closed" /\ heap[r].state # "none") => heap[r].state = "deleted"

\* The client of WebSocket connection c is registered and has data to send.
HasOutgoing(c) ==
    /\ wsi[c].is = "ws"
    /\ <<c, 1>> \in webSocketClients
    /\ hasDataToSend(sendQueue[c])

\* C21: the outgoing data of a WebSocket client reaches its connection.  When
\* work() has run, a writable callback is requested for every open connection
\* whose registered client has data to send; when a writable callback of such
\* a connection has returned and data is left, the callback is requested
\* again; and what lws_write has sent on a connection are the fragments queued
\* on the client of that connection, one after the other in queue order.
C21_QueuedFragmentsAreWrittenInOrder ==
    /\ (event.reason = "work" /\ ~crashed) =>
           \A c \in Conns : HasOutgoing(c) => c \in writable
    /\ (event.reason = "LWS_CALLBACK_SERVER_WRITEABLE" /\ ~crashed) =>
           (HasOutgoing(event.wsi) => event.wsi \in writable)
    /\ \A c \in Conns : \A i \in 1 .. Len(written[c]) : written[c][i] = <<c, i>>

\* The callbacks registered so far for a key of a handler list, in the order
\* of their registration.
RECURSIVE CallbacksOf(_, _, _, _)
CallbacksOf(list, method, url, n) ==
    IF n = 0 THEN <<>>
    ELSE LET r == registered[n]
             before == CallbacksOf(list, method, url, n - 1)
         IN  IF r.list = list /\ r.method = method /\ r.url = url
             THEN Append(before, r.callback)
             ELSE before

\* C22: after any calls of handle and handleWebSocket the HTTP handler list has
\* at most one entry per (method, url) and the WebSocket handler list at most
\* one entry per url, and the callbacks of an entry are the callbacks
\* registered for its key, all of them and no other, in registration order.
C22_OneEntryPerKeyWithItsCallbacks ==
    /\ \A i, j \in 1 .. Len(httpHandlers) :
           (httpHandlers[i].method = httpHandlers[j].method
            /\ httpHandlers[i].url = httpHandlers[j].url) => i = j
    /\ \A i, j \in 1 .. Len(webSocketHandlers) :
           webSocketHandlers[i].url = webSocketHandlers[j].url => i = j
    /\ \A i \in 1 .. Len(httpHandlers) :
           httpHandlers[i].callbacks =
               CallbacksOf("http", httpHandlers[i].method, httpHandlers[i].url,
                           Len(registered))
    /\ \A i \in 1 .. Len(webSocketHandlers) :
           webSocketHandlers[i].callbacks =
               CallbacksOf("ws", "", webSocketHandlers[i].url, Len(registered))

\* Two callbacks were registered for one (method, url) and one for the same
\* url under another method.
C22_Witness ==
    \E i, j \in 1 .. Len(httpHandlers) :
        /\ i # j
        /\ httpHandlers[i].url = httpHandlers[j].url
        /\ Len(httpHandlers[i].callbacks) = 2

====
